---- MODULE Spec2Model ----
(***************************************************************************)
(* Model of the university-list pipeline: the wikitable extractor          *)
(* (main.py, extract_university_tables_from_url), the classification and   *)
(* search helpers, and the two drivers (main.py __main__ and the button    *)
(* handler of streamlit_app.py).                                           *)
(*                                                                         *)
(* Strings are TLA+ strings; Len, \o, SubSeq and Tail act on them          *)
(* character by character, which is what lower(), strip(), startswith()    *)
(* and the substring tests of the source are computed from.                *)
(***************************************************************************)
EXTENDS Integers, Sequences, FiniteSets, TLC

(***************************************************************************)
(* Bounds of the exploration.                                              *)
(***************************************************************************)
MaxTables == 2
MaxRowsTotal == 3
MaxRowsPlain == 2
MaxLimit == 2
BulkRows == 21

(***************************************************************************)
(* Program constants.                                                      *)
(***************************************************************************)
\* main.py:323  country_universities_data[:100]
MAIN_SLICE == 100
\* main.py:332  if processed_count >= 20
MAIN_CAP == 20
\* streamlit_app.py:57-58  number_input(min_value=1, max_value=100)
LIMIT_MIN == 1
LIMIT_MAX == 100

(***************************************************************************)
(* String primitives of Python used by the source.                         *)
(***************************************************************************)
LowerChar(c) ==
  CASE c = "A" -> "a" [] c = "B" -> "b" [] c = "C" -> "c" [] c = "D" -> "d"
    [] c = "E" -> "e" [] c = "F" -> "f" [] c = "G" -> "g" [] c = "H" -> "h"
    [] c = "I" -> "i" [] c = "J" -> "j" [] c = "K" -> "k" [] c = "L" -> "l"
    [] c = "M" -> "m" [] c = "N" -> "n" [] c = "O" -> "o" [] c = "P" -> "p"
    [] c = "Q" -> "q" [] c = "R" -> "r" [] c = "S" -> "s" [] c = "T" -> "t"
    [] c = "U" -> "u" [] c = "V" -> "v" [] c = "W" -> "w" [] c = "X" -> "x"
    [] c = "Y" -> "y" [] c = "Z" -> "z" [] OTHER -> c

RECURSIVE Lower(_)
Lower(s) == IF Len(s) = 0 THEN ""
            ELSE LowerChar(SubSeq(s, 1, 1)) \o Lower(Tail(s))

\* Python's `sub in s`
Contains(sub, s) ==
  \E k \in 1..(Len(s) - Len(sub) + 1) : SubSeq(s, k, k + Len(sub) - 1) = sub

\* Python's s.startswith(p)
StartsWith(s, p) == Len(s) >= Len(p) /\ SubSeq(s, 1, Len(p)) = p

IsSpace(c) == c \in {" ", "\t", "\n"}

RECURSIVE LStrip(_)
LStrip(s) == IF Len(s) > 0 /\ IsSpace(SubSeq(s, 1, 1)) THEN LStrip(Tail(s)) ELSE s

RECURSIVE RStrip(_)
RStrip(s) == IF Len(s) > 0 /\ IsSpace(SubSeq(s, Len(s), Len(s)))
             THEN RStrip(SubSeq(s, 1, Len(s) - 1)) ELSE s

\* Python's s.strip(), and get_text(strip=True) of a cell with one text node
Strip(s) == RStrip(LStrip(s))

(***************************************************************************)
(* Python dicts: functions from keys to values.                            *)
(***************************************************************************)
EmptyDict == [k \in {} |-> ""]

\* d[k] = v
DictSet(d, k, v) == [x \in (DOMAIN d) \cup {k} |-> IF x = k THEN v ELSE d[x]]

\* what is left of d after d.pop(k)
DictWithout(d, k) == [x \in (DOMAIN d) \ {k} |-> d[x]]

\* d.get(k, default)
DictGet(d, k, default) == IF k \in DOMAIN d THEN d[k] ELSE default

(***************************************************************************)
(* State.                                                                  *)
(***************************************************************************)
VARIABLES
  profile,        \* which bounded class of inputs this run draws from
  variant,        \* "main" (main.py __main__) or "streamlit" (button handler)
  current_limit,  \* streamlit_app.py:84, the user's limit
  pc,             \* position of the single thread of control
  tableNo,        \* tables of the page iterated so far (enumerate(tables))
  rowsRead,       \* rows of the page iterated so far
  table_headers,  \* main.py:93
  website_col_idx,\* main.py:95-99, 1-based position, 0 where Python has -1
  cells,          \* main.py:107, the row being processed
  extracted_data, \* main.py:76
  all_extracted_university_data,  \* main.py:19 / streamlit_app.py:93
  final_university_data,          \* main.py:327 / streamlit_app.py:94
  processed_count,                \* main.py:328 / streamlit_app.py:95
  idx,            \* position of the enrichment loop in the extracted list
  university_name, website, has_agriculture, has_tto,
  tto_page_url, incubation_record,
  qIdx,           \* queries issued so far by the running resolver
  results,        \* the queries of the running resolver and the links returned
  agriAnswers,    \* answers of the chat endpoint so far, by university name
  ttoAnswers,
  searchUp,       \* whether the search endpoint answers requests in this run
  calls,          \* the external requests issued so far, as a set
  run,            \* 0: the only run; 1: a run that will be repeated; 2: its re-run
  firstOutput,    \* the output table of the run that was repeated
  inputs,         \* what the page and the search endpoint sent in a run that
                  \* will be repeated, in the order it was read
  inPos           \* the re-run's position in inputs

extVars  == <<tableNo, rowsRead, table_headers, website_col_idx, cells, extracted_data>>
loopVars == <<all_extracted_university_data, final_university_data, processed_count, idx>>
recVars  == <<university_name, website, has_agriculture, has_tto,
              tto_page_url, incubation_record>>
resVars  == <<qIdx, results>>
envVars  == <<agriAnswers, ttoAnswers, searchUp>>
cfgVars  == <<profile, variant, current_limit, run, firstOutput>>
logVars  == <<inputs, inPos>>
vars     == <<cfgVars, pc, extVars, loopVars, recVars, resVars, envVars, calls, logVars>>

\* Python's None, and a local that has not been assigned
None == "<None>"
Unset == "<unset>"

(***************************************************************************)
(* Page content the extractor is run on.  A cell is its text node and the  *)
(* href attributes of its <a href> tags in document order.                 *)
(***************************************************************************)
Cell(t, ls) == [text |-> t, links |-> ls]

cA     == Cell(" Alpha University", <<>>)
cB     == Cell("Beta College", <<>>)
cEmpty == Cell("", <<>>)
cLinkA == Cell("alpha.ac.th", <<"http://www.alpha.ac.th/">>)
cTextB == Cell("beta.ac.th ", <<>>)
cCity  == Cell("Bangkok", <<"/wiki/Bangkok">>)

\* the header cells a table of the page can have
HeaderLists(p) ==
  IF p = "extract" THEN
    { <<"Name", "Website">>,
      <<"University", "Name">>,
      <<"University", "Institutions", "website">>,
      <<"Name", "Name">>,
      <<"Name", "Website", "Website">>,
      <<"Location", "Website">>,
      <<"Full name", "Country">>,
      <<>> }
  ELSE IF p = "bulk" THEN { <<"Name", "Website">> }
  ELSE { <<"Name", "Website">>, <<"University", "website">>, <<"Location", "Website">> }

\* the body rows a table with header cells hs can have
RowPool(p, hs) ==
  IF p = "extract" THEN
    { <<cA, cLinkA>>, <<cEmpty, cTextB>>, <<cCity, cB>>,
      <<cA>>, <<cB, cTextB, cLinkA>>, <<>> }
  ELSE IF p = "bulk" THEN { <<cA, cLinkA>> }
  ELSE IF p = "replay" THEN
    IF hs = <<"Name", "Website">> THEN { <<cA, cLinkA>>, <<cB, cTextB>> }
    ELSE IF hs = <<"University", "website">> THEN { <<cEmpty, cLinkA>>, <<cA>> }
    ELSE { <<cB, cTextB>> }
  ELSE IF hs = <<"Name", "Website">>
       THEN { <<cA, cLinkA>>, <<cB, cTextB>>, <<cEmpty, cLinkA>>, <<cA>> }
       ELSE { <<cB, cTextB>> }

RowLimit(p) ==
  IF p = "extract" THEN MaxRowsTotal
  ELSE IF p = "bulk" THEN BulkRows
  ELSE MaxRowsPlain

TableLimit(p) == IF p = "extract" THEN MaxTables ELSE 1

(***************************************************************************)
(* extract_university_tables_from_url: the per-table and per-row steps.    *)
(***************************************************************************)
\* main.py:95-99: [h.lower() for h in table_headers].index('website')
WebsiteColIdx(hs) ==
  LET hits == {k \in 1..Len(hs) : Lower(hs[k]) = "website"}
  IN IF hits = {} THEN 0 ELSE CHOOSE k \in hits : \A j \in hits : k <= j

\* main.py:108
RowWellFormedLoose(cs, hs) == cs # <<>> /\ Len(cs) <= Len(hs)
RowWellFormed(cs, hs) == cs # <<>> /\ Len(cs) = Len(hs)

\* main.py:114-118: the value stored for one cell
CellValueTextOnly(c, isWebsiteCol) == Strip(c.text)
CellValue(c, isWebsiteCol) ==
  IF isWebsiteCol /\ c.links # <<>> THEN Head(c.links) ELSE Strip(c.text)

\* main.py:111-118
RECURSIVE RowDictFrom(_, _, _, _, _)
RowDictFrom(d, hs, wci, cs, k) ==
  IF k > Len(cs) THEN d
  ELSE RowDictFrom(DictSet(d, hs[k], CellValue(cs[k], k = wci)), hs, wci, cs, k + 1)

\* main.py:111-121
RowDataDict(hs, wci, cs, country_name) ==
  DictSet(RowDictFrom(EmptyDict, hs, wci, cs, 1), "Country", country_name)

\* main.py:125-126
possible_name_columns ==
  << "name", "names", "name in english", "names in english",
     "institution", "institutions", "university", "universities" >>

\* main.py:128-135: the (alias, header) pair the nested scan stops at
NameMatches(hs) ==
  { m \in (1..Len(possible_name_columns)) \X (1..Len(hs)) :
      Contains(possible_name_columns[m[1]], Lower(hs[m[2]])) }

NameHeaderIdxHeaderMajor(hs) ==
  LET ms == NameMatches(hs)
  IN IF ms = {} THEN 0
     ELSE (CHOOSE m \in ms : \A n \in ms :
              m[2] < n[2] \/ (m[2] = n[2] /\ m[1] <= n[1]))[2]

NameHeaderIdx(hs) ==
  LET ms == NameMatches(hs)
  IN IF ms = {} THEN 0
     ELSE (CHOOSE m \in ms : \A n \in ms :
              m[1] < n[1] \/ (m[1] = n[1] /\ m[2] <= n[2]))[2]

\* main.py:124-140 with the except clause of 144-146 for a failing pop
RowOutcome(hs, wci, cs, country_name) ==
  IF ~RowWellFormed(cs, hs) THEN [kind |-> "malformed"]
  ELSE LET d == RowDataDict(hs, wci, cs, country_name)
           h == NameHeaderIdx(hs)
       IN IF h = 0 THEN [kind |-> "noname"]
          ELSE IF hs[h] \notin DOMAIN d THEN [kind |-> "raise"]
          ELSE [kind |-> "emit",
                dict |-> DictSet(DictWithout(d, hs[h]), "University", d[hs[h]])]

(***************************************************************************)
(* Initial states.                                                         *)
(***************************************************************************)
Min(a, b) == IF a <= b THEN a ELSE b

\* main.py:23-25 and streamlit_app.py:104, the one country processed
country_name == "Thailand"

InitCommon ==
  /\ pc = "fetch"
  /\ tableNo = 0 /\ rowsRead = 0
  /\ table_headers = <<>> /\ website_col_idx = 0 /\ cells = <<>>
  /\ extracted_data = <<>>
  /\ all_extracted_university_data = <<>>
  /\ final_university_data = <<>>
  /\ processed_count = 0
  /\ idx = 0
  /\ university_name = Unset /\ website = Unset
  /\ has_agriculture = Unset /\ has_tto = Unset
  /\ tto_page_url = Unset /\ incubation_record = Unset
  /\ qIdx = 0 /\ results = <<>>
  /\ agriAnswers = EmptyDict /\ ttoAnswers = EmptyDict
  /\ calls = {}
  /\ firstOutput = <<>> /\ inputs = <<>> /\ inPos = 0

InitConfig ==
  /\ variant \in {"main", "streamlit"}
  /\ current_limit \in IF variant = "streamlit"
                         THEN LIMIT_MIN..Min(LIMIT_MAX, MaxLimit)
                         ELSE {MAIN_CAP}

\* The whole pipeline, on the small pages and on the long uniform ones.
Init ==
  /\ profile \in {"plain", "bulk"}
  /\ InitConfig
  /\ searchUp \in IF profile = "bulk" THEN {FALSE} ELSE BOOLEAN
  /\ run = 0
  /\ InitCommon

\* The whole pipeline, run twice in a row.
InitRerun ==
  /\ profile \in {"replay", "bulk"}
  /\ InitConfig
  /\ searchUp \in IF profile = "bulk" THEN {FALSE} ELSE BOOLEAN
  /\ run = 1
  /\ InitCommon

\* The extractor alone, on the varied pages.
InitExtract ==
  /\ profile = "extract"
  /\ variant = "main" /\ current_limit = MAIN_CAP
  /\ searchUp = TRUE
  /\ run = 0
  /\ InitCommon

(***************************************************************************)
(* Reads from the outside world.  A run that will be repeated records what *)
(* it reads; its re-run is served the same page and, for the same query,   *)
(* the same response.                                                      *)
(***************************************************************************)
\* main.py:79-84, 92, 106: the next piece of the page, out of S
PageRead(tag, S) ==
  IF run = 2
  THEN IF inPos <= Len(inputs) /\ inputs[inPos].tag = tag
       THEN {inputs[inPos].val} ELSE {}
  ELSE S

\* main.py:209-211: the response to a search query, out of S
SearchRead(query, S) ==
  IF /\ run = 2 /\ inPos <= Len(inputs)
     /\ inputs[inPos].tag = "search" /\ inputs[inPos].key = query
  THEN {inputs[inPos].val}
  ELSE S

\* x has been read
Logged(tag, key, x) ==
  /\ inputs' = IF run = 1
               THEN Append(inputs, [tag |-> tag, key |-> key, val |-> x])
               ELSE inputs
  /\ inPos' = IF run = 2 THEN inPos + 1 ELSE inPos

(***************************************************************************)
(* extract_university_tables_from_url, step by step.                       *)
(***************************************************************************)
notExt == <<cfgVars, loopVars, recVars, resVars, envVars>>

\* main.py:77-90 and 142-146: the page request and the search for tables
FetchPage ==
  /\ pc = "fetch"
  /\ \E outcome \in PageRead("fetch", {"request_error", "no_tables", "tables"}) :
        /\ Logged("fetch", "", outcome)
        /\ calls' = calls \cup {[kind |-> "fetch", rec |-> 0, arg |-> country_name,
                                  result |-> outcome]}
        /\ pc' = IF outcome = "tables" THEN "table" ELSE "extract_ret"
  /\ UNCHANGED <<extVars, notExt>>

\* main.py:92-104: the next table of the page
NextTable ==
  /\ pc = "table"
  /\ tableNo < TableLimit(profile)
  /\ \E t \in PageRead("table", HeaderLists(profile) \X BOOLEAN) :
        LET hs == t[1]  tbody == t[2]
        IN /\ Logged("table", "", t)
           /\ table_headers' = hs
           /\ website_col_idx' = WebsiteColIdx(hs)
           /\ pc' = IF tbody THEN "row" ELSE "table"
  /\ tableNo' = tableNo + 1
  /\ cells' = <<>>
  /\ UNCHANGED <<rowsRead, extracted_data, notExt, calls>>

\* main.py:92, 146: no table is left
EndOfTables ==
  /\ pc = "table"
  /\ tableNo >= 1
  /\ \E e \in PageRead("end_tables", {"-"}) : Logged("end_tables", "", e)
  /\ pc' = "extract_ret"
  /\ UNCHANGED <<extVars, notExt, calls>>

\* main.py:106-109: a row that is skipped for its cell count
SkipMalformedRow ==
  /\ pc = "row"
  /\ rowsRead < RowLimit(profile)
  /\ \E cs \in PageRead("row", RowPool(profile, table_headers)) :
        /\ RowOutcome(table_headers, website_col_idx, cs, country_name).kind = "malformed"
        /\ Logged("row", "", cs)
        /\ cells' = cs
  /\ rowsRead' = rowsRead + 1
  /\ pc' = "row"
  /\ UNCHANGED <<tableNo, table_headers, website_col_idx, extracted_data, notExt, calls>>

\* main.py:111-138: a row that becomes a record
EmitRow ==
  /\ pc = "row"
  /\ rowsRead < RowLimit(profile)
  /\ \E cs \in PageRead("row", RowPool(profile, table_headers)) :
        LET o == RowOutcome(table_headers, website_col_idx, cs, country_name)
        IN /\ o.kind = "emit"
           /\ Logged("row", "", cs)
           /\ cells' = cs
           /\ extracted_data' = Append(extracted_data, o.dict)
  /\ rowsRead' = rowsRead + 1
  /\ pc' = "row"
  /\ UNCHANGED <<tableNo, table_headers, website_col_idx, notExt, calls>>

\* main.py:111-140: a row of a table without a name column (and, were
\* pop ever to fail, the except clause of 144-146, which ends the call)
DropUnnamedRow ==
  /\ pc = "row"
  /\ rowsRead < RowLimit(profile)
  /\ \E cs \in PageRead("row", RowPool(profile, table_headers)) :
        LET o == RowOutcome(table_headers, website_col_idx, cs, country_name)
        IN /\ o.kind \in {"noname", "raise"}
           /\ Logged("row", "", cs)
           /\ cells' = cs
           /\ pc' = IF o.kind = "raise" THEN "extract_ret" ELSE "row"
  /\ rowsRead' = rowsRead + 1
  /\ UNCHANGED <<tableNo, table_headers, website_col_idx, extracted_data, notExt, calls>>

\* main.py:106: no row is left in this table
EndOfRows ==
  /\ pc = "row"
  /\ \E e \in PageRead("end_rows", {"-"}) : Logged("end_rows", "", e)
  /\ pc' = "table"
  /\ UNCHANGED <<extVars, notExt, calls>>

NextExtract ==
  \/ FetchPage \/ NextTable \/ EndOfTables
  \/ SkipMalformedRow \/ EmitRow \/ DropUnnamedRow \/ EndOfRows

SpecExtract == InitExtract /\ [][NextExtract]_vars

(***************************************************************************)
(* The classification endpoint and the search primitive.                   *)
(***************************************************************************)
\* Python's truth test of a string or None (`if not x`, `if x`)
IsFalsy(v) == v = "" \/ v = None

\* what the chat endpoint can answer; the request is sent with temperature 0
\* (main.py:161, 182), so one name gets one answer within a run
ChatFailed == "<request failed>"
ChatAnswers == {" Yes.", "No", ChatFailed}

\* main.py:163-167 and 184-188
AnswerIsYesExact(a) == a # ChatFailed /\ Lower(Strip(a)) = "yes"
AnswerIsYesOrFailed(a) == a = ChatFailed \/ Contains("yes", Lower(Strip(a)))
AnswerIsYes(a) == a # ChatFailed /\ Contains("yes", Lower(Strip(a)))

\* s.split(sep)[0] and s.split(sep)[-1]
SplitFirst(s, sep) ==
  LET hits == {k \in 1..(Len(s) - Len(sep) + 1) : SubSeq(s, k, k + Len(sep) - 1) = sep}
  IN IF hits = {} THEN s
     ELSE SubSeq(s, 1, (CHOOSE k \in hits : \A j \in hits : k <= j) - 1)

RECURSIVE SplitLast(_, _)
SplitLast(s, sep) ==
  LET hits == {k \in 1..(Len(s) - Len(sep) + 1) : SubSeq(s, k, k + Len(sep) - 1) = sep}
  IN IF hits = {} THEN s
     ELSE SplitLast(SubSeq(s, (CHOOSE k \in hits : \A j \in hits : k <= j) + Len(sep), Len(s)), sep)

\* s.split(sep)[1], for an s that contains sep
SplitSecond(s, sep) ==
  LET hits == {k \in 1..(Len(s) - Len(sep) + 1) : SubSeq(s, k, k + Len(sep) - 1) = sep}
      k1   == CHOOSE k \in hits : \A j \in hits : k <= j
  IN SplitFirst(SubSeq(s, k1 + Len(sep), Len(s)), sep)

\* the result pages of the search endpoint: the href attributes of the
\* anchors of the page, in document order; or a failed request
SearchFailed == <<"<request failed>">>

hrefTTO   == "/url?q=http://www.alpha.ac.th/TTO&sa=U"
hrefTech  == "/url?q=http://www.alpha.ac.th/technology-transfer/Startup&sa=U"
hrefKto   == "/url?q=http://www.alpha.ac.th/kto/&sa=U"
hrefAbout == "/url?q=http://www.alpha.ac.th/about&sa=U"
hrefIncub == "/url?q=http://news.example.org/incubation-2024&sa=U"
hrefEntre == "/url?q=http://www.alpha.ac.th/entrepreneurship&sa=U"
hrefBoth  == "/url?q=http://www.alpha.ac.th/tto/startup&sa=U"
hrefSchool == "/url?q=https://www.linkedin.com/school/alpha-university/&sa=U"
hrefCache == "/url?q=http://webcache.googleusercontent.com/search?q=cache:tto&sa=U"
hrefLogin == "/url?q=https://accounts.google.com/ServiceLogin?continue=kto&sa=U"
hrefMenu  == "/search?q=alpha&tbm=isch"

SearchPages(p) ==
  IF p = "resolve" THEN
    { <<hrefMenu>>,
      <<hrefMenu, hrefTTO, hrefAbout>>,
      <<hrefCache, hrefTech>>,
      <<hrefLogin, hrefKto>>,
      <<hrefSchool, hrefTTO>>,
      <<hrefIncub>>, <<hrefEntre>>,
      SearchFailed }
  ELSE IF p = "replay" THEN { <<hrefMenu, hrefBoth>> }
  ELSE { <<>>, <<hrefMenu, hrefBoth>>, SearchFailed }

\* what the endpoint can send back in this run
SearchResponses(p, up) == IF up THEN SearchPages(p) ELSE {SearchFailed}

\* main.py:214-220: the first anchor that is a result link
RECURSIVE FirstResult(_)
FirstResult(hrefs) ==
  IF hrefs = <<>> THEN None
  ELSE LET href == Head(hrefs)
       IN IF /\ StartsWith(href, "/url?q=")
             /\ ~Contains("webcache", href)
             /\ ~Contains("accounts.google.com", href)
          THEN SplitFirst(SplitSecond(href, "/url?q="), "&")
          ELSE FirstResult(Tail(hrefs))

\* main.py:190-226: google_search_for_url, given what the endpoint sent
GoogleSearch(resp) == IF resp = SearchFailed THEN None ELSE FirstResult(resp)

\* main.py:233-240 and 262-269: the site filter of the two resolvers
SiteFilter(university_website) ==
  LET w == IF ~IsFalsy(university_website) /\ ~StartsWith(university_website, "http")
           THEN "http://" \o university_website
           ELSE university_website
  IN IF ~IsFalsy(w) THEN "site:" \o SplitFirst(SplitLast(w, "//"), "/") ELSE None

\* an f-string's rendering of a value that may be None
Fmt(v) == IF v = None THEN "None" ELSE v

\* main.py:242-248
TtoQueries(name, site_filter) ==
  << name \o " TTO office " \o Fmt(site_filter),
     name \o " technology transfer office " \o Fmt(site_filter),
     name \o " intellectual property commercialization " \o Fmt(site_filter),
     name \o " KTO office " \o Fmt(site_filter),
     name \o " research commercialization " \o Fmt(site_filter) >>

\* main.py:254
TtoAcceptsNoKto(url) ==
  Contains("tto", Lower(url)) \/ Contains("technology-transfer", Lower(url))
TtoAccepts(url) ==
  \/ Contains("tto", Lower(url))
  \/ Contains("technology-transfer", Lower(url))
  \/ Contains("kto", Lower(url))

\* main.py:271-276
IncubQueries(name, site_filter) ==
  << name \o " incubation program " \o Fmt(site_filter),
     name \o " startup accelerator " \o Fmt(site_filter),
     name \o " entrepreneurship center " \o Fmt(site_filter),
     name \o " student startups " \o Fmt(site_filter) >>

\* main.py:282
IncubAcceptsAny(url) == TRUE
IncubAccepts(url) ==
  \/ Contains("incubation", Lower(url))
  \/ Contains("startup", Lower(url))
  \/ Contains("entrepreneurship", Lower(url))

\* main.py:286
BroadQuery(name) ==
  name \o " innovation ecosystem OR startup success OR incubation achievements"

\* requests.utils.quote on the characters the names of the pages use
QuoteChar(c) == IF c = " " THEN "%20" ELSE c

RECURSIVE Quote(_)
Quote(s) == IF Len(s) = 0 THEN "" ELSE QuoteChar(SubSeq(s, 1, 1)) \o Quote(Tail(s))

\* main.py:297-305
LinkedInQuery(name) == name \o " site:linkedin.com/school"

FindLinkedIn(name, linkedin_url) ==
  IF ~IsFalsy(linkedin_url) /\ Contains("linkedin.com/school/", linkedin_url)
  THEN linkedin_url
  ELSE "https://www.linkedin.com/search/results/all/?keywords=" \o Quote(name)
         \o "&origin=GLOBAL_SEARCH_HEADER&entityType=school"

\* main.py:28-40, 345
ASEAN_COUNTRIES ==
  { "Brunei", "Myanmar", "Cambodia", "Timor-Leste", "Indonesia", "Laos",
    "Malaysia", "Philippines", "Singapore", "Thailand", "Vietnam" }

Region(country) == IF country \in ASEAN_COUNTRIES THEN "Southeast Asia" ELSE "Unknown"

(***************************************************************************)
(* The driver: main.py __main__ and the button handler of streamlit_app.py.*)
(***************************************************************************)
\* main.py:323 / streamlit_app.py:111: how many extracted records are kept
SliceLimitFixed == MAIN_SLICE
SliceLimit == IF variant = "main" THEN MAIN_SLICE ELSE current_limit

\* main.py:332 / streamlit_app.py:122: the cap on enriched records
ProcessCap == IF variant = "main" THEN MAIN_CAP ELSE current_limit

\* main.py:365-374 / streamlit_app.py:159-168
OutputRow(name, country, site, tto, ttoUrl, incub, linkedin) ==
  ("University" :> name) @@ ("Country" :> country) @@ ("Region" :> Region(country))
  @@ ("Website" :> site) @@ ("Has TTO?" :> (IF tto THEN "Yes" ELSE "No"))
  @@ ("TTO Page URL" :> ttoUrl) @@ ("Incubation Record" :> incub)
  @@ ("Apollo/LinkedIn Search URL" :> linkedin)

\* a classification request for record idx and what the caller made of it
GateCall(kind, name, yes) ==
  [kind |-> kind, rec |-> idx, arg |-> name, result |-> IF yes THEN "yes" ELSE "no"]

\* a search request a resolver issued for record idx; arg is the website
\* (or name) the resolver was called with
SearchCall(kind, arg) == [kind |-> kind, rec |-> idx, arg |-> arg, result |-> "-"]

\* main.py:320-328 / streamlit_app.py:108-111
ExtendExtracted ==
  /\ pc = "extract_ret"
  /\ all_extracted_university_data' =
       all_extracted_university_data
         \o SubSeq(extracted_data, 1, Min(Len(extracted_data), SliceLimit))
  /\ idx' = 1
  /\ pc' = "loop"
  \* the locals of the returned call are gone
  /\ tableNo' = 0 /\ rowsRead' = 0 /\ table_headers' = <<>>
  /\ website_col_idx' = 0 /\ cells' = <<>>
  \* extracted_data lives on as country_universities_data
  /\ UNCHANGED <<cfgVars, extracted_data, final_university_data, processed_count,
                 recVars, resVars, envVars, calls, logVars>>

\* main.py:331, 379-395 / streamlit_app.py:121, 173-191: the list is
\* exhausted and the table is written
LoopExhausted ==
  /\ pc = "loop"
  /\ idx > Len(all_extracted_university_data)
  /\ pc' = "done"
  /\ UNCHANGED <<cfgVars, extVars, loopVars, recVars, resVars, envVars, calls, logVars>>

\* main.py:332 / streamlit_app.py:122
CapReachedStrict(count, cap) == count > cap
CapReached(count, cap) == count >= cap

\* main.py:332-334 / streamlit_app.py:122-124
StopAtCap ==
  /\ pc = "loop"
  /\ idx <= Len(all_extracted_university_data)
  /\ CapReached(processed_count, ProcessCap)
  /\ pc' = "done"
  /\ UNCHANGED <<cfgVars, extVars, loopVars, recVars, resVars, envVars, calls, logVars>>

\* main.py:336-339 / streamlit_app.py:126-129
SkipMissingNameNever(name) == FALSE
SkipMissingName(name) == IsFalsy(name)

SkipRecord ==
  /\ pc = "loop"
  /\ idx <= Len(all_extracted_university_data)
  /\ ~CapReached(processed_count, ProcessCap)
  /\ SkipMissingName(DictGet(all_extracted_university_data[idx], "University", None))
  /\ university_name' = DictGet(all_extracted_university_data[idx], "University", None)
  /\ idx' = idx + 1
  /\ UNCHANGED <<cfgVars, pc, extVars, all_extracted_university_data,
                 final_university_data, processed_count, website, has_agriculture,
                 has_tto, tto_page_url, incubation_record, resVars, envVars, calls,
                 logVars>>

\* main.py:349, 376-377 / streamlit_app.py:143, 170-171: where the loop
\* goes after the agriculture gate
AfterAgricultureAlways(yes) == "tto_gate"
AfterAgriculture(yes) == IF yes THEN "tto_gate" ELSE "loop"

\* main.py:336-349, 376-377 / streamlit_app.py:126-143, 170-171:
\* the record's fields are read and the agriculture gate is asked
CheckAgriculture ==
  /\ pc = "loop"
  /\ idx <= Len(all_extracted_university_data)
  /\ ~CapReached(processed_count, ProcessCap)
  /\ LET uni_info == all_extracted_university_data[idx]
         name     == DictGet(uni_info, "University", None)
     IN /\ ~SkipMissingName(name)
        /\ university_name' = name
        /\ website' = DictGet(uni_info, "Website", "N/A")
        /\ \E a \in (IF name \in DOMAIN agriAnswers
                       THEN {agriAnswers[name]} ELSE ChatAnswers) :
              /\ agriAnswers' = DictSet(agriAnswers, name, a)
              /\ has_agriculture' = AnswerIsYes(a)
              /\ calls' = calls \cup {GateCall("agriculture", name, AnswerIsYes(a))}
              /\ pc' = AfterAgriculture(AnswerIsYes(a))
              /\ idx' = IF AfterAgriculture(AnswerIsYes(a)) = "loop" THEN idx + 1 ELSE idx
  /\ UNCHANGED <<cfgVars, extVars, all_extracted_university_data,
                 final_university_data, processed_count, has_tto, tto_page_url,
                 incubation_record, resVars, ttoAnswers, searchUp, logVars>>

\* main.py:353-357 / streamlit_app.py:147-151: where the loop goes after
\* the TTO gate
AfterTtoGateAlways(yes) == "tto_url"
AfterTtoGate(yes) == IF yes THEN "tto_url" ELSE "incub"

\* main.py:352 / streamlit_app.py:146
TtoUrlDefaultUnset == Unset
TtoUrlDefault == "N/A"

\* main.py:351-357 / streamlit_app.py:145-151
CheckTTO ==
  /\ pc = "tto_gate"
  /\ \E a \in (IF university_name \in DOMAIN ttoAnswers
                 THEN {ttoAnswers[university_name]} ELSE ChatAnswers) :
        /\ ttoAnswers' = DictSet(ttoAnswers, university_name, a)
        /\ has_tto' = AnswerIsYes(a)
        /\ calls' = calls \cup {GateCall("tto_gate", university_name, AnswerIsYes(a))}
        /\ pc' = AfterTtoGate(AnswerIsYes(a))
  /\ tto_page_url' = TtoUrlDefault
  /\ qIdx' = 0 /\ results' = <<>>
  /\ UNCHANGED <<cfgVars, extVars, loopVars, university_name, website,
                 has_agriculture, incubation_record, agriAnswers, searchUp, logVars>>

\* main.py:250-256: what get_tto_page_url does with the link of query k
\* of n: "return" with a value, or "next" query
TtoStepStopAtMiss(url, k, n) ==
  IF ~IsFalsy(url) /\ TtoAccepts(url) THEN [do |-> "return", value |-> url]
  ELSE IF k = n \/ ~IsFalsy(url) THEN [do |-> "return", value |-> "Not Found"]
  ELSE [do |-> "next"]
TtoStep(url, k, n) ==
  IF ~IsFalsy(url) /\ TtoAccepts(url) THEN [do |-> "return", value |-> url]
  ELSE IF k = n THEN [do |-> "return", value |-> "Not Found"]
  ELSE [do |-> "next"]

\* main.py:228-256: one query of get_tto_page_url
TtoQuery ==
  /\ pc = "tto_url"
  /\ LET queries == TtoQueries(university_name, SiteFilter(website))
     IN /\ qIdx < Len(queries)
        /\ calls' = calls \cup {SearchCall("tto_url", website)}
        /\ \E resp \in SearchRead(queries[qIdx + 1], SearchResponses(profile, searchUp)) :
              LET url  == GoogleSearch(resp)
                  step == TtoStep(url, qIdx + 1, Len(queries))
              IN /\ Logged("search", queries[qIdx + 1], resp)
                 /\ results' = Append(results, [query |-> queries[qIdx + 1], url |-> url])
                 /\ IF step.do = "return"
                    THEN tto_page_url' = step.value /\ pc' = "tto_ret"
                    ELSE UNCHANGED <<tto_page_url, pc>>
  /\ qIdx' = qIdx + 1
  /\ UNCHANGED <<cfgVars, extVars, loopVars, university_name, website,
                 has_agriculture, has_tto, incubation_record, envVars>>

\* main.py:354-355 / streamlit_app.py:148-149: get_tto_page_url has returned
ReturnTto ==
  /\ pc = "tto_ret"
  /\ pc' = "incub"
  /\ qIdx' = 0 /\ results' = <<>>
  /\ UNCHANGED <<cfgVars, extVars, loopVars, recVars, envVars, calls, logVars>>

\* main.py:278-283: what get_incubation_record does with the link of
\* domain-scoped query k of n
IncubStep(url, k, n) ==
  IF ~IsFalsy(url) /\ IncubAccepts(url)
  THEN [do |-> "return", value |-> "Found relevant page: " \o url]
  ELSE IF k = n THEN [do |-> "broad"]
  ELSE [do |-> "next"]

\* main.py:258-283: one domain-scoped query of get_incubation_record
IncubQuery ==
  /\ pc = "incub"
  /\ LET queries == IncubQueries(university_name, SiteFilter(website))
     IN /\ qIdx < Len(queries)
        /\ calls' = calls \cup {SearchCall("incubation", website)}
        /\ \E resp \in SearchRead(queries[qIdx + 1], SearchResponses(profile, searchUp)) :
              LET url  == GoogleSearch(resp)
                  step == IncubStep(url, qIdx + 1, Len(queries))
              IN /\ Logged("search", queries[qIdx + 1], resp)
                 /\ results' = Append(results, [query |-> queries[qIdx + 1], url |-> url])
                 /\ IF step.do = "return"
                    THEN incubation_record' = step.value /\ pc' = "incub_ret"
                    ELSE /\ incubation_record' = incubation_record
                         /\ pc' = IF step.do = "broad" THEN "incub_broad" ELSE pc
  /\ qIdx' = qIdx + 1
  /\ UNCHANGED <<cfgVars, extVars, loopVars, university_name, website,
                 has_agriculture, has_tto, tto_page_url, envVars>>

\* main.py:287-291: the result of the broader query
BroadResultNone(broad_url) == "Not Found/No specific record"
BroadResult(broad_url) ==
  IF ~IsFalsy(broad_url) THEN "Broader information found: " \o broad_url
  ELSE "Not Found/No specific record"

\* main.py:285-291: the broader query of get_incubation_record
IncubBroadQuery ==
  /\ pc = "incub_broad"
  /\ calls' = calls \cup {SearchCall("incubation_broad", university_name)}
  /\ \E resp \in SearchRead(BroadQuery(university_name),
                            SearchResponses(profile, searchUp)) :
        /\ Logged("search", BroadQuery(university_name), resp)
        /\ results' = Append(results, [query |-> BroadQuery(university_name),
                                        url |-> GoogleSearch(resp)])
        /\ incubation_record' = BroadResult(GoogleSearch(resp))
  /\ qIdx' = qIdx + 1
  /\ pc' = "incub_ret"
  /\ UNCHANGED <<cfgVars, extVars, loopVars, university_name, website,
                 has_agriculture, has_tto, tto_page_url, envVars>>

\* main.py:359-360 / streamlit_app.py:153-154: get_incubation_record has
\* returned
ReturnIncub ==
  /\ pc = "incub_ret"
  /\ pc' = "linkedin"
  /\ qIdx' = 0 /\ results' = <<>>
  /\ UNCHANGED <<cfgVars, extVars, loopVars, recVars, envVars, calls, logVars>>

\* main.py:362-375 / streamlit_app.py:156-169: the profile search, the
\* output row and the counter
FinishRecord ==
  /\ pc = "linkedin"
  /\ calls' = calls \cup {SearchCall("linkedin", university_name)}
  /\ \E resp \in SearchRead(LinkedInQuery(university_name),
                            SearchResponses(profile, searchUp)) :
        LET country == DictGet(all_extracted_university_data[idx], "Country", "N/A")
        IN /\ Logged("search", LinkedInQuery(university_name), resp)
           /\ final_university_data' =
                Append(final_university_data,
                       OutputRow(university_name, country, website, has_tto,
                                 tto_page_url, incubation_record,
                                 FindLinkedIn(university_name, GoogleSearch(resp))))
  /\ processed_count' = processed_count + 1
  /\ idx' = idx + 1
  /\ pc' = "loop"
  /\ UNCHANGED <<cfgVars, extVars, all_extracted_university_data, recVars,
                 resVars, envVars>>

NextEnrich ==
  \/ CheckTTO \/ TtoQuery \/ ReturnTto
  \/ IncubQuery \/ IncubBroadQuery \/ ReturnIncub \/ FinishRecord

Next ==
  \/ NextExtract
  \/ ExtendExtracted \/ LoopExhausted \/ StopAtCap \/ SkipRecord \/ CheckAgriculture
  \/ NextEnrich

Spec == Init /\ [][Next]_vars

(***************************************************************************)
(* The pipeline is started again once it has ended: main.py as a new       *)
(* process, streamlit_app.py by another click of the button.  The page and *)
(* the endpoints are as they were.                                         *)
(***************************************************************************)
\* main.py:19 / streamlit_app.py:93: the list of extracted records when a
\* run starts, given what the previous run left in it
ListAtStartKept(previous) == previous
ListAtStart(previous) == <<>>

\* main.py:19, 76, 327-328 / streamlit_app.py:93-95
Rerun ==
  /\ pc = "done" /\ run = 1
  /\ run' = 2
  /\ firstOutput' = final_university_data
  /\ inPos' = 1
  /\ pc' = "fetch"
  /\ all_extracted_university_data' = ListAtStart(all_extracted_university_data)
  /\ final_university_data' = <<>>
  /\ processed_count' = 0
  /\ idx' = 0
  /\ extracted_data' = <<>>
  /\ tableNo' = 0 /\ rowsRead' = 0 /\ table_headers' = <<>>
  /\ website_col_idx' = 0 /\ cells' = <<>>
  /\ university_name' = Unset /\ website' = Unset
  /\ has_agriculture' = Unset /\ has_tto' = Unset
  /\ tto_page_url' = Unset /\ incubation_record' = Unset
  /\ qIdx' = 0 /\ results' = <<>>
  /\ calls' = {}
  /\ UNCHANGED <<profile, variant, current_limit, envVars, inputs>>

NextRerun == Next \/ Rerun

SpecRerun == InitRerun /\ [][NextRerun]_vars

(***************************************************************************)
(* The three resolvers alone, entered for one record that has passed the   *)
(* agriculture gate, with the varied result pages.                         *)
(***************************************************************************)
ResolveRecords ==
  { ("University" :> "Alpha University") @@ ("Country" :> country_name)
      @@ ("Website" :> "http://www.alpha.ac.th/"),
    ("University" :> "Beta College") @@ ("Country" :> country_name)
      @@ ("website" :> "beta.ac.th") }

InitResolve ==
  /\ profile = "resolve"
  /\ variant = "main" /\ current_limit = MAIN_CAP
  /\ searchUp = TRUE
  /\ pc = "tto_gate"
  /\ tableNo = 0 /\ rowsRead = 0
  /\ table_headers = <<>> /\ website_col_idx = 0 /\ cells = <<>>
  /\ \E r \in ResolveRecords :
        /\ extracted_data = <<r>>
        /\ all_extracted_university_data = <<r>>
        /\ university_name = r["University"]
        /\ website = DictGet(r, "Website", "N/A")
        /\ agriAnswers = (r["University"] :> " Yes.")
        /\ calls = { [kind |-> "fetch", rec |-> 0, arg |-> country_name, result |-> "tables"],
                     [kind |-> "agriculture", rec |-> 1, arg |-> r["University"],
                      result |-> "yes"] }
  /\ final_university_data = <<>>
  /\ processed_count = 0
  /\ idx = 1
  /\ has_agriculture = TRUE /\ has_tto = Unset
  /\ tto_page_url = Unset /\ incubation_record = Unset
  /\ qIdx = 0 /\ results = <<>>
  /\ ttoAnswers = EmptyDict
  /\ run = 0 /\ firstOutput = <<>> /\ inputs = <<>> /\ inPos = 0

SpecResolve == InitResolve /\ [][NextEnrich]_vars

(***************************************************************************)
(* Properties of the extractor.                                            *)
(***************************************************************************)
Last(sq) == sq[Len(sq)]

\* a row was taken from the page in this step
RowStep == rowsRead' = rowsRead + 1

\* the row taken in this step became a record
RowEmitted == RowStep /\ extracted_data' # extracted_data

\* some header contains an alias of the name-alias list
SomeAliasMatches(hs) ==
  \E a \in 1..Len(possible_name_columns), h \in 1..Len(hs) :
     Contains(possible_name_columns[a], Lower(hs[h]))

\* h is the column reached first when aliases are scanned in priority order
\* and, for each alias, the headers in their original order
FirstInScan(hs, h) ==
  \E a \in 1..Len(possible_name_columns) :
     /\ Contains(possible_name_columns[a], Lower(hs[h]))
     /\ \A h2 \in 1..(h - 1) : ~Contains(possible_name_columns[a], Lower(hs[h2]))
     /\ \A a2 \in 1..(a - 1), h2 \in 1..Len(hs) :
           ~Contains(possible_name_columns[a2], Lower(hs[h2]))

\* C4: a row whose number of data cells differs from the number of header
\* cells of its table adds nothing to the returned sequence, and the
\* extractor goes on with the next row of the same table, with the records
\* collected so far untouched.
C4_MalformedRowDiscarded ==
  [][ (RowStep /\ Len(cells') # Len(table_headers))
        => /\ extracted_data' = extracted_data
           /\ pc' = "row"
           /\ tableNo' = tableNo
           /\ table_headers' = table_headers
           /\ website_col_idx' = website_col_idx ]_vars

\* C4 witness: in a table where every well-formed row is emitted, the first
\* row was discarded for its cell count and the second one became a record.
C4_Witness ==
  /\ tableNo = 1 /\ table_headers = <<"Name", "Website">>
  /\ rowsRead = 2 /\ Len(extracted_data) = 1
  /\ RowWellFormed(cells, table_headers)
  /\ pc = "row"

\* C5 as stated: a well-formed row is emitted iff some header contains an
\* alias; the name of the emitted record is the cell text of the column the
\* alias-major scan reaches first; that column is no longer in the record
\* under its original header.
C5_NameColumnAsStated ==
  [][ (RowStep /\ RowWellFormed(cells', table_headers))
        => /\ RowEmitted <=> SomeAliasMatches(table_headers)
           /\ RowEmitted =>
                \E h \in 1..Len(table_headers) :
                   /\ FirstInScan(table_headers, h)
                   /\ Last(extracted_data')["University"] = Strip(cells'[h].text)
                   /\ table_headers[h] \notin DOMAIN Last(extracted_data') ]_vars

\* C6 as stated: every record the extractor has emitted has a non-empty name.
C6_ExtractedNameNonEmpty ==
  \A k \in 1..Len(extracted_data) : extracted_data[k]["University"] # ""

\* C7 as stated: in an emitted record the website column holds the target of
\* the cell's hyperlink when the cell has one and its visible text when it
\* has none, and every other column holds its cell's visible text (the name
\* column under the name field; a column called Country is left out, since
\* the country label is attached under that key).
C7_WebsiteAsStated ==
  [][ RowEmitted =>
        LET hs  == table_headers
            rec == Last(extracted_data')
        IN \A k \in 1..Len(hs) :
             LET key == IF FirstInScan(hs, k) THEN "University" ELSE hs[k]
             IN IF Lower(hs[k]) = "website"
                THEN /\ key \in DOMAIN rec
                     /\ rec[key] = IF cells'[k].links # <<>>
                                    THEN Head(cells'[k].links)
                                    ELSE Strip(cells'[k].text)
                ELSE hs[k] # "Country" =>
                     /\ key \in DOMAIN rec
                     /\ rec[key] = Strip(cells'[k].text) ]_vars

(***************************************************************************)
(* Properties of the enrichment loop.                                      *)
(***************************************************************************)
\* the requests of one kind issued for record r
CallsOf(kind, r) == {c \in calls : c.kind = kind /\ c.rec = r}

EnrichmentKinds == {"tto_gate", "tto_url", "incubation", "incubation_broad", "linkedin"}

\* the records the agriculture gate has been asked about, by its verdict
Passed == {r \in 1..Len(all_extracted_university_data) :
             \E c \in CallsOf("agriculture", r) : c.result = "yes"}
Failed == {r \in 1..Len(all_extracted_university_data) :
             \E c \in CallsOf("agriculture", r) : c.result = "no"}

\* the records that passed the gate and whose loop body has ended
Finished == {r \in Passed : r < idx}

\* the k-th smallest element of a finite set of numbers
RECURSIVE Nth(_, _)
Nth(S, k) ==
  LET m == CHOOSE x \in S : \A y \in S : x <= y
  IN IF k = 1 THEN m ELSE Nth(S \ {m}, k - 1)

\* a field of an output row that holds a value
Populated(v) == v \notin {Unset, None, ""}

\* C1: a record whose agriculture classification is false has no row in the
\* output and no request other than that classification is ever issued for
\* it; the rows of the output are those of the records that passed, in order.
C1_FailedGateEndsRecord ==
  /\ \A r \in Failed :
        /\ r \notin Passed
        /\ \A c \in calls : c.rec = r => c.kind = "agriculture"
        /\ r < idx
  /\ \A c \in calls : c.kind \in EnrichmentKinds => c.rec \in Passed
  /\ Len(final_university_data) = Cardinality(Finished)
  /\ \A j \in 1..Len(final_university_data) :
        final_university_data[j]["University"]
          = all_extracted_university_data[Nth(Finished, j)]["University"]

\* C1 witness: the run has ended, the first record failed the gate and a
\* later one passed it and is the only row.
C1_Witness ==
  /\ pc = "done"
  /\ 1 \in Failed /\ 2 \in Passed
  /\ Len(final_university_data) = 1

\* C2: of the records the agriculture gate was asked about, those answered
\* false have no output row and those answered true have exactly one once
\* their loop body has ended, with the four enrichment fields holding values.
C2_OneFullRowPerPassedRecord ==
  /\ Len(final_university_data) = Cardinality(Finished)
  /\ processed_count = Len(final_university_data)
  /\ Cardinality(Finished) + Cardinality({r \in Failed : r < idx})
       = Cardinality({r \in 1..Len(all_extracted_university_data) :
                        r < idx /\ CallsOf("agriculture", r) # {}})
  /\ \A j \in 1..Len(final_university_data) :
        LET row == final_university_data[j]
        IN /\ row["Has TTO?"] \in {"Yes", "No"}
           /\ Populated(row["TTO Page URL"])
           /\ Populated(row["Incubation Record"])
           /\ Populated(row["Apollo/LinkedIn Search URL"])

\* C2 witness: a row of a record whose TTO gate was false and whose searches
\* all came back empty.
C2_Witness ==
  /\ Len(final_university_data) >= 1
  /\ final_university_data[1]["Has TTO?"] = "No"
  /\ final_university_data[1]["TTO Page URL"] = "N/A"
  /\ final_university_data[1]["Incubation Record"] = "Not Found/No specific record"
  /\ 1 \in Failed

\* the first n extracted records have a name and the agriculture gate
\* answers yes for each
FirstAllPass(n) ==
  \A k \in 1..n :
     LET name == DictGet(extracted_data[k], "University", None)
     IN /\ ~IsFalsy(name)
        /\ name \in DOMAIN agriAnswers
        /\ Contains("yes", Lower(Strip(agriAnswers[name])))

C6_OutputNameNonEmpty ==
  /\ \A k \in 1..Len(extracted_data) : "University" \in DOMAIN extracted_data[k]
  /\ \A c \in calls : c.kind # "fetch" =>
        all_extracted_university_data[c.rec]["University"] # ""
  /\ \A j \in 1..Len(final_university_data) :
        final_university_data[j]["University"] # ""

\* C6 witness: a record with an empty name was extracted and passed over,
\* and a later record was enriched.
C6_Witness ==
  /\ Len(all_extracted_university_data) >= 2
  /\ all_extracted_university_data[1]["University"] = ""
  /\ idx > 2
  /\ Len(final_university_data) = 1

\* C8: TTO URL queries are issued only for records whose TTO gate returned
\* true; the incubation resolution is attempted after the TTO gate whatever
\* the gate returned (a failed request included), and the profile search
\* follows it.
C8_EnrichmentOrder ==
  /\ \A c \in calls : c.kind = "tto_url" =>
        \E g \in CallsOf("tto_gate", c.rec) : g.result = "yes"
  /\ \A c \in calls : c.kind \in {"incubation", "incubation_broad"} =>
        CallsOf("tto_gate", c.rec) # {}
  /\ \A c \in calls : c.kind = "incubation_broad" => CallsOf("incubation", c.rec) # {}
  /\ \A c \in calls : c.kind = "linkedin" => CallsOf("incubation", c.rec) # {}
  /\ pc = "tto_url" => CallsOf("incubation", idx) = {}
  /\ \A r \in 1..Len(all_extracted_university_data) :
        (CallsOf("tto_gate", r) # {} /\ r < idx)
          => CallsOf("incubation", r) # {} /\ CallsOf("linkedin", r) # {}

\* C8 witness: the TTO request of a finished record failed, no TTO URL query
\* was issued for it, and the incubation and profile searches were.
C8_Witness ==
  /\ idx > 1
  /\ CallsOf("tto_gate", 1) # {}
  /\ university_name \in DOMAIN ttoAnswers
  /\ all_extracted_university_data[1]["University"] \in DOMAIN ttoAnswers
  /\ ttoAnswers[all_extracted_university_data[1]["University"]] = ChatFailed
  /\ CallsOf("tto_url", 1) = {}
  /\ CallsOf("incubation", 1) # {} /\ CallsOf("linkedin", 1) # {}

(***************************************************************************)
(* Properties of the resolvers.                                            *)
(***************************************************************************)
HasTtoKeyword(u) ==
  u # None /\ \E w \in {"tto", "technology-transfer", "kto"} : Contains(w, Lower(u))

HasIncubKeyword(u) ==
  u # None /\ \E w \in {"incubation", "startup", "entrepreneurship"} : Contains(w, Lower(u))

\* C9: get_tto_page_url issues its five queries in order, returns the link
\* of the first query whose link contains tto, technology-transfer or kto
\* (in any case) without issuing a later query, goes on after a query that
\* gave no link or another link, and returns "Not Found" when none of the
\* five gave an accepted link.
C9_TtoUrlFirstAccepted ==
  LET queries == TtoQueries(university_name, SiteFilter(website))
      hits    == {k \in 1..Len(results) : HasTtoKeyword(results[k].url)}
  IN /\ pc \in {"tto_url", "tto_ret"} =>
          /\ Len(results) <= 5 /\ qIdx = Len(results)
          /\ \A k \in 1..Len(results) : results[k].query = queries[k]
          /\ \A k \in hits : k = Len(results)
     /\ pc = "tto_url" => hits = {} /\ Len(results) < 5
     /\ pc = "tto_ret" =>
          IF hits # {} THEN tto_page_url = results[Len(results)].url
          ELSE Len(results) = 5 /\ tto_page_url = "Not Found"

\* C9 witness: the first query gave no link, the second a link without a
\* keyword, and the third an accepted link, which is the result.
C9_Witness ==
  /\ pc = "tto_ret" /\ Len(results) = 3
  /\ results[1].url = None
  /\ results[2].url # None /\ ~HasTtoKeyword(results[2].url)
  /\ HasTtoKeyword(results[3].url)
  /\ tto_page_url = "http://www.alpha.ac.th/kto/"

\* C10: get_incubation_record returns "Found relevant page: {url}" for the
\* first of its four domain-scoped queries whose link contains incubation,
\* startup or entrepreneurship and stops there; only when none of the four
\* is accepted does it issue the broader query, whose link, whatever it is,
\* gives "Broader information found: {url}"; with no link the result is
\* "Not Found/No specific record".
C10_IncubationStages ==
  LET queries == IncubQueries(university_name, SiteFilter(website))
      scoped  == 1..Min(Len(results), 4)
      hits    == {k \in scoped : HasIncubKeyword(results[k].url)}
  IN /\ pc \in {"incub", "incub_broad", "incub_ret"} =>
          /\ Len(results) <= 5 /\ qIdx = Len(results)
          /\ \A k \in scoped : results[k].query = queries[k]
          /\ \A k \in hits : k = Len(results)
          /\ Len(results) = 5 => results[5].query = BroadQuery(university_name)
     /\ pc = "incub" => hits = {} /\ Len(results) < 4
     /\ pc = "incub_broad" => hits = {} /\ Len(results) = 4
     /\ pc = "incub_ret" =>
          IF hits # {}
          THEN incubation_record = "Found relevant page: " \o results[Len(results)].url
          ELSE /\ Len(results) = 5
               /\ incubation_record =
                    IF results[5].url # None
                    THEN "Broader information found: " \o results[5].url
                    ELSE "Not Found/No specific record"

\* C10 witness: none of the four domain-scoped queries was accepted (one of
\* them gave a link without a keyword) and the broader query gave a link
\* without a keyword, which is reported as broader information.
C10_Witness ==
  /\ pc = "incub_ret" /\ Len(results) = 5
  /\ results[2].url # None
  /\ results[5].url = "http://www.alpha.ac.th/TTO"
  /\ incubation_record = "Broader information found: http://www.alpha.ac.th/TTO"

(***************************************************************************)
(* Failures of the external calls.                                         *)
(***************************************************************************)
\* the page request of this run raised (main.py:79-80, 142-143)
FetchFailed == \E c \in calls : c.kind = "fetch" /\ c.result = "request_error"

\* the output row of a record that passed the gate and was finished
RowOfRecord(r) == final_university_data[Cardinality({q \in Finished : q <= r})]

\* C11: whatever external calls fail (the page fetch, classification
\* requests, search requests), each failure is turned into its default: a
\* failed fetch gives no records, no request for a record and no output row;
\* a failed classification counts as "no"; a failed search counts as no
\* link, hence "N/A" or "Not Found", the sentinel record and the fallback
\* profile URL.  No failure ends the run early: the run ends only at the
\* end of the list or at the cap, with every record before that point
\* examined.
C11_FailuresBecomeDefaults ==
  \* a failed page fetch: no record, no request for a record, no output row
  /\ FetchFailed =>
        /\ extracted_data = <<>> /\ all_extracted_university_data = <<>>
        /\ final_university_data = <<>>
        /\ \A c \in calls : c.kind = "fetch"
  \* a failed classification is a "no"
  /\ \A c \in calls :
        /\ (c.kind = "agriculture" /\ agriAnswers[c.arg] = ChatFailed) => c.result = "no"
        /\ (c.kind = "tto_gate" /\ ttoAnswers[c.arg] = ChatFailed) => c.result = "no"
  /\ \A r \in Finished :
        LET name == all_extracted_university_data[r]["University"]
            row  == RowOfRecord(r)
        IN /\ agriAnswers[name] # ChatFailed
           /\ ttoAnswers[name] = ChatFailed =>
                 row["Has TTO?"] = "No" /\ row["TTO Page URL"] = "N/A"
           \* a failed search is a search without a result
           /\ ~searchUp =>
                 /\ row["TTO Page URL"] =
                      (IF row["Has TTO?"] = "Yes" THEN "Not Found" ELSE "N/A")
                 /\ row["Incubation Record"] = "Not Found/No specific record"
                 /\ row["Apollo/LinkedIn Search URL"] = FindLinkedIn(name, None)
  \* the run ends only where the loop ends: at the end of the list or at
  \* the cap, with every record before that point examined
  /\ pc = "done" =>
        /\ \/ idx > Len(all_extracted_university_data)
           \/ CapReached(processed_count, ProcessCap)
        /\ \A r \in 1..(idx - 1) :
              \/ IsFalsy(all_extracted_university_data[r]["University"])
              \/ CallsOf("agriculture", r) # {}

\* C11 witness: the run has ended with the search endpoint down throughout;
\* the classification of the first record failed, the second record passed
\* the gate, its TTO classification failed, and it has its output row.
C11_Witness ==
  /\ pc = "done" /\ ~searchUp /\ ~FetchFailed
  /\ Len(all_extracted_university_data) = 2
  /\ \E c \in CallsOf("agriculture", 1) : agriAnswers[c.arg] = ChatFailed
  /\ 2 \in Finished
  /\ ttoAnswers[all_extracted_university_data[2]["University"]] = ChatFailed
  /\ Len(final_university_data) = 1

(***************************************************************************)
(* The stop check of the interactive variant.                              *)
(***************************************************************************)
\* the loop is about to evaluate its stop check for record idx
AtStopCheck == pc = "loop" /\ idx <= Len(all_extracted_university_data)

\* the loop body has been entered for record r
Examined(r) ==
  \/ IsFalsy(all_extracted_university_data[r]["University"])
  \/ CallsOf("agriculture", r) # {}

\* C13: in streamlit_app.py the counter is below the user's limit every
\* time the stop check is evaluated, so the stop branch is never taken, and
\* the run ends with every record of the truncated list examined.
C13_StopBranchNeverTaken ==
  variant = "streamlit" =>
    /\ Len(all_extracted_university_data) <= current_limit
    /\ AtStopCheck => processed_count < current_limit
    /\ pc = "done" =>
          /\ idx = Len(all_extracted_university_data) + 1
          /\ \A r \in 1..Len(all_extracted_university_data) : Examined(r)

\* C13 witness: an interactive run has ended; the page had more records
\* than the limit, every kept record passed the gate, and the counter has
\* reached the limit without the stop branch having been evaluated again.
C13_Witness ==
  /\ variant = "streamlit" /\ pc = "done"
  /\ Len(extracted_data) > current_limit
  /\ Len(all_extracted_university_data) = current_limit
  /\ processed_count = current_limit

(***************************************************************************)
(* The website of a record, from the extractor to the output row.          *)
(***************************************************************************)
\* the keys of a record that the extractor's website test matches
\* (main.py:97)
WebsiteKeys(d) == {k \in DOMAIN d : Lower(k) = "website"}

\* what the extractor stored for the website column of the record's table,
\* "N/A" where the table had none
StoredWebsite(d) ==
  IF WebsiteKeys(d) = {} THEN "N/A" ELSE d[CHOOSE k \in WebsiteKeys(d) : TRUE]

\* C14 as stated: the Website of every output row, and the website handed
\* to the TTO and incubation resolvers, is the value the extractor stored
\* for the website column of the record's table when the table has one
\* (header equal to 'website' in any case), and "N/A" only when it has none.
C14_WebsiteAsStated ==
  /\ \A r \in Finished :
        RowOfRecord(r)["Website"] = StoredWebsite(all_extracted_university_data[r])
  /\ \A c \in calls : c.kind \in {"tto_url", "incubation"} =>
        c.arg = StoredWebsite(all_extracted_university_data[c.rec])

(***************************************************************************)
(* A run and its re-run.                                                   *)
(***************************************************************************)
IsPrefix(a, b) == Len(a) <= Len(b) /\ a = SubSeq(b, 1, Len(a))

\* C12: run again on the same page and with the same responses to the same
\* queries, the pipeline builds the same output table, row by row in the
\* same order with the same column values, and ends with exactly the table
\* of the first run; nothing the first run left behind changes it.
C12_RerunSameOutput ==
  run = 2 =>
    /\ IsPrefix(final_university_data, firstOutput)
    /\ pc = "done" => final_university_data = firstOutput

\* C12 witness: the re-run has ended with a table of two different rows.
C12_Witness ==
  /\ run = 2 /\ pc = "done"
  /\ Len(firstOutput) = 2
  /\ firstOutput[1] # firstOutput[2]
  /\ final_university_data = firstOutput

====
